---- MODULE Spec2Model ----
(***************************************************************************)
(* Scheduling a directed acyclic graph of tasks on a pool of runners       *)
(* (graph.c).  The model follows the runner threads statement by           *)
(* statement: every access to shared data that is not protected by a       *)
(* mutex is a step of its own, a critical section whose data is only       *)
(* touched under its mutex is one step.                                    *)
(***************************************************************************)
EXTENDS Integers, Sequences, FiniteSets, TLC

\* Bounds of the model
MaxPool == 2
MaxLoops == 2

VARIABLES
  children,            \* gnode->children, per label, in construction order
  required,            \* gnode->deps.required, per label
  satisfied,           \* gnode->deps.satisfied, per label
  mutex,               \* gnode->mutex, per label: 0 or the runner holding it
  tasks_queue,         \* the linked list of pending nodes
  tasks_queue_length,
  tasks_queue_mtx,     \* 0 or the runner holding it
  exec_trace,
  runners_active,
  runners_pool_size,
  graph_loops,
  graph_loop,
  pc,                  \* position of each runner in runner()
  gnode,               \* runner's local gnode
  child,               \* runner's position in gnode->children
  main_pc,             \* position of main()
  join_i,              \* loop index of runners_join
  started,             \* history: number of task bodies started, per label
  executed,            \* history: number of task bodies finished, per label
  push_log,            \* history: nodes in the order they were pushed
  pop_log,             \* history: nodes in the order they were popped
  last_trace,          \* output: the trace last printed by runner_check_loops
  log_exec_trace       \* LOG_EXEC_TRACE: show the trace at the end of a loop

vars == <<children, required, satisfied, mutex, tasks_queue,
          tasks_queue_length, tasks_queue_mtx, exec_trace, runners_active,
          runners_pool_size, graph_loops, graph_loop, pc, gnode, child,
          main_pc, join_i, started, executed, push_log, pop_log, last_trace,
          log_exec_trace>>

----------------------------------------------------------------------------
\* Graph construction

EmptyGraph == [children |-> <<>>, required |-> <<>>]

gnode_new(G, label) ==
  [children |-> (label :> <<>>) @@ G.children,
   required |-> (label :> 0) @@ G.required]

gnode_child(G, parent, c) ==
  [children |-> [G.children EXCEPT ![parent] = Append(@, c)],
   required |-> [G.required EXCEPT ![c] = @ + 1]]

gnode_child_new(G, parent, label) ==
  gnode_child(gnode_new(G, label), parent, label)

\* The two nodes every graph starts with: initial 'A' and final 'Z'
GraphAZ == gnode_new(gnode_new(EmptyGraph, "A"), "Z")

\* A --> Z
GraphDirect == gnode_child(GraphAZ, "A", "Z")

\* A --> B --> Z
GraphChain == gnode_child(gnode_child_new(GraphAZ, "A", "B"), "B", "Z")

\* A --> { B, C } --> Z
GraphDiamond ==
  LET g1 == gnode_child_new(GraphAZ, "A", "B")
      g2 == gnode_child_new(g1, "A", "C")
      g3 == gnode_child(g2, "B", "Z")
  IN  gnode_child(g3, "C", "Z")

\* A --> { Z, B }, B --> Z
GraphSkew ==
  LET g1 == gnode_child(GraphAZ, "A", "Z")
      g2 == gnode_child_new(g1, "A", "B")
  IN  gnode_child(g2, "B", "Z")

\* The graph built by main()
GraphMain ==
  LET g01 == gnode_child_new(GraphAZ, "A", "a")
      g02 == gnode_child_new(g01, "A", "b")
      g03 == gnode_child_new(g02, "A", "c")
      g04 == gnode_child_new(g03, "a", "1")
      g05 == gnode_child_new(g04, "a", "2")
      g06 == gnode_child(g05, "b", "2")
      g07 == gnode_child_new(g06, "c", "3")
      g08 == gnode_child_new(g07, "c", "4")
      g09 == gnode_child_new(g08, "1", "i")
      g10 == gnode_child_new(g09, "1", "j")
      g11 == gnode_child_new(g10, "2", "k")
      g12 == gnode_child(g11, "3", "k")
      g13 == gnode_child(g12, "4", "Z")
      g14 == gnode_child_new(g13, "i", "x")
      g15 == gnode_child(g14, "j", "x")
      g16 == gnode_child_new(g15, "j", "y")
      g17 == gnode_child(g16, "k", "y")
      g18 == gnode_child(g17, "x", "Z")
  IN  gnode_child(g18, "y", "Z")

\* Acyclic graphs in which 'Z' is reachable from every node
Graphs == {GraphDirect, GraphChain, GraphDiamond, GraphSkew}

----------------------------------------------------------------------------
Labels == DOMAIN children
Runners == 1 .. runners_pool_size
NoNode == "-"

\* mutation: the new element is linked in front of the list
lnode_prepend(list, g) == <<g>> \o list

\* lnode_append walks to the last element and links the new one after it
lnode_append(list, g) == Append(list, g)

\* mutation: the broadcast wakes no runner
broadcast_lost(p) == p

\* cnd_broadcast: every runner blocked in cnd_wait becomes runnable and has
\* to re-acquire the mutex before it returns from wait()
broadcast(p) == [r \in DOMAIN p |-> IF p[r] = "cnd_wait" THEN "wakeup" ELSE p[r]]

InitOn(gs, sizes, log) ==
  \E G \in gs, size \in sizes :
    /\ log_exec_trace = log
    /\ children = G.children
    /\ required = G.required
    /\ satisfied = [n \in DOMAIN G.children |-> 0]
    /\ mutex = [n \in DOMAIN G.children |-> 0]
    /\ tasks_queue = <<>>
    /\ tasks_queue_length = 0
    /\ tasks_queue_mtx = 0
    /\ exec_trace = <<>>
    /\ runners_active = TRUE
    /\ runners_pool_size = size
    /\ graph_loops = 0
    /\ graph_loop = 0
    /\ pc = [r \in 1 .. size |-> "while"]
    /\ gnode = [r \in 1 .. size |-> NoNode]
    /\ child = [r \in 1 .. size |-> 0]
    /\ main_pc = "runners_loop"
    /\ join_i = 0
    /\ started = [n \in DOMAIN G.children |-> 0]
    /\ executed = [n \in DOMAIN G.children |-> 0]
    /\ push_log = <<>>
    /\ pop_log = <<>>
    /\ last_trace = <<>>

\* As compiled: LOG_EXEC_TRACE is false
Init == InitOn(Graphs, 1 .. MaxPool, FALSE)

----------------------------------------------------------------------------
\* Variables an action leaves alone, in groups
topology == <<children, required, runners_pool_size, log_exec_trace>>
queue == <<tasks_queue, tasks_queue_length, tasks_queue_mtx, push_log, pop_log>>
loops == <<graph_loops, graph_loop>>
counts == <<started, executed>>
traces == <<exec_trace, last_trace>>
locals == <<gnode, child>>
mainv == <<main_pc, join_i>>

\* task_queue_push_back up to the unlock: the critical section on
\* tasks_queue_mtx.  The broadcast that follows is a step of the caller.
task_queue_push_back(g) ==
  /\ tasks_queue_mtx = 0
  /\ tasks_queue' = IF tasks_queue = <<>> THEN <<g>>
                                          ELSE lnode_append(tasks_queue, g)
  /\ tasks_queue_length' = tasks_queue_length + 1
  /\ push_log' = Append(push_log, g)
  /\ UNCHANGED <<tasks_queue_mtx, pop_log>>

\* task_queue_pop_front, called with tasks_queue_mtx locked and a
\* non-empty list: the head of the list and the rest of it
task_queue_pop_front(list) == <<Head(list), Tail(list)>>

\* exec_trace_append: one critical section on exec_trace_mtx
exec_trace_append(trace, label) == Append(trace, label)

\* mutation: the reset leaves the trace as it is
exec_trace_kept == exec_trace

\* exec_trace_reset
exec_trace_reset == <<>>

\* mutation: the final task counts the loop as well
task_Z_counts(label, loop) == IF label \in {"A", "Z"} THEN loop + 1 ELSE loop

\* The task of a node as a function on graph_loop: task_A counts the loop,
\* every other task only takes time
task(label, loop) == IF label = "A" THEN loop + 1 ELSE loop

\* mutation: the arrivals of the last loop are kept
deps_reset_kept(sat) == sat

\* gnode->deps.satisfied = 0
deps_reset(sat) == 0

\* mutation: the child is ready one arrival early
deps_met_early(req, sat) == req <= sat + 2

\* mutation: the child is ready at the arrival of any parent
deps_met_any(req, sat) == sat + 1 >= 1

\* child->gnode->deps.required == ++child->gnode->deps.satisfied, on the
\* value of satisfied before the increment
deps_met(req, sat) == req = sat + 1

\* mutation: a check of the loops that stops one loop early
loops_done_early(loop, target) == loop + 1 = target

\* graph_loop == graph_loops
loops_done(loop, target) == loop = target

----------------------------------------------------------------------------
\* main()

\* runners_loop(loops) up to the unlock in task_queue_push_back
RunnersLoop ==
  /\ main_pc = "runners_loop"
  /\ \E n \in 1 .. MaxLoops : graph_loops' = n
  /\ task_queue_push_back("A")
  /\ main_pc' = "broadcast"
  /\ UNCHANGED <<topology, satisfied, mutex, traces, runners_active,
                 graph_loop, pc, locals, join_i, counts>>

\* the broadcast at the end of task_queue_push_back
RunnersLoopBroadcast ==
  /\ main_pc = "broadcast"
  /\ pc' = broadcast(pc)
  /\ main_pc' = "runners_join"
  /\ UNCHANGED <<topology, satisfied, mutex, queue, traces, runners_active,
                 loops, locals, join_i, counts>>

\* runners_join: thrd_join of the runners, one after the other
RunnersJoin ==
  /\ main_pc = "runners_join"
  /\ IF join_i < runners_pool_size
       THEN /\ pc[join_i + 1] = "exit"
            /\ join_i' = join_i + 1
            /\ UNCHANGED main_pc
       ELSE /\ main_pc' = "exit"
            /\ UNCHANGED join_i
  /\ UNCHANGED <<topology, satisfied, mutex, queue, traces, runners_active,
                 loops, pc, locals, counts>>

Main == RunnersLoop \/ RunnersLoopBroadcast \/ RunnersJoin

----------------------------------------------------------------------------
\* runner()

\* while (runners_active)
RunnerWhile(r) ==
  /\ pc[r] = "while"
  /\ pc' = [pc EXCEPT ![r] = IF runners_active THEN "lock" ELSE "exit"]
  /\ UNCHANGED <<topology, satisfied, mutex, queue, traces, runners_active,
                 loops, locals, mainv, counts>>

\* lock(&tasks_queue_mtx)
RunnerLock(r) ==
  /\ pc[r] = "lock"
  /\ tasks_queue_mtx = 0
  /\ tasks_queue_mtx' = r
  /\ pc' = [pc EXCEPT ![r] = "test_length"]
  /\ UNCHANGED <<topology, satisfied, mutex, tasks_queue, tasks_queue_length,
                 push_log, pop_log, traces, runners_active, loops, locals,
                 mainv, counts>>

\* while (tasks_queue_length == 0): the test, with the mutex locked
RunnerTestLength(r) ==
  /\ pc[r] = "test_length"
  /\ pc' = [pc EXCEPT ![r] = IF tasks_queue_length = 0 THEN "wait"
                                                       ELSE "test_active"]
  /\ UNCHANGED <<topology, satisfied, mutex, queue, traces, runners_active,
                 loops, locals, mainv, counts>>

\* wait(&tasks_queue_cvar, &tasks_queue_mtx): cnd_wait unlocks the mutex and
\* blocks the runner, in one step
RunnerWait(r) ==
  /\ pc[r] = "wait"
  /\ tasks_queue_mtx' = 0
  /\ pc' = [pc EXCEPT ![r] = "cnd_wait"]
  /\ UNCHANGED <<topology, satisfied, mutex, tasks_queue, tasks_queue_length,
                 push_log, pop_log, traces, runners_active, loops, locals,
                 mainv, counts>>

\* cnd_wait may return without a broadcast
RunnerSpuriousWakeup(r) ==
  /\ pc[r] = "cnd_wait"
  /\ pc' = [pc EXCEPT ![r] = "wakeup"]
  /\ UNCHANGED <<topology, satisfied, mutex, queue, traces, runners_active,
                 loops, locals, mainv, counts>>

\* return from cnd_wait: the mutex is locked again
RunnerWakeup(r) ==
  /\ pc[r] = "wakeup"
  /\ tasks_queue_mtx = 0
  /\ tasks_queue_mtx' = r
  /\ pc' = [pc EXCEPT ![r] = "test_length"]
  /\ UNCHANGED <<topology, satisfied, mutex, tasks_queue, tasks_queue_length,
                 push_log, pop_log, traces, runners_active, loops, locals,
                 mainv, counts>>

\* if (!runners_active) { unlock; goto exit; }
RunnerTestActive(r) ==
  /\ pc[r] = "test_active"
  /\ IF ~runners_active
       THEN /\ tasks_queue_mtx' = 0
            /\ pc' = [pc EXCEPT ![r] = "exit"]
       ELSE /\ pc' = [pc EXCEPT ![r] = "pop_front"]
            /\ UNCHANGED tasks_queue_mtx
  /\ UNCHANGED <<topology, satisfied, mutex, tasks_queue, tasks_queue_length,
                 push_log, pop_log, traces, runners_active, loops, locals,
                 mainv, counts>>

\* gnode = task_queue_pop_front(); unlock(&tasks_queue_mtx);
\* with tasks_queue == NULL, tasks_queue->gnode is a null dereference: the
\* process dies
RunnerPopFront(r) ==
  /\ pc[r] = "pop_front"
  /\ IF tasks_queue = <<>>
       THEN /\ pc' = [pc EXCEPT ![r] = "segv"]
            /\ UNCHANGED <<queue, gnode>>
       ELSE /\ gnode' = [gnode EXCEPT ![r] = task_queue_pop_front(tasks_queue)[1]]
            /\ tasks_queue' = task_queue_pop_front(tasks_queue)[2]
            /\ tasks_queue_length' = tasks_queue_length - 1
            /\ pop_log' = Append(pop_log, Head(tasks_queue))
            /\ tasks_queue_mtx' = 0
            /\ pc' = [pc EXCEPT ![r] = "trace_start"]
            /\ UNCHANGED push_log
  /\ UNCHANGED <<topology, satisfied, mutex, traces, runners_active, loops,
                 child, mainv, counts>>

\* exec_trace_append(gnode->label) before the task
RunnerTraceStart(r) ==
  /\ pc[r] = "trace_start"
  /\ exec_trace' = exec_trace_append(exec_trace, gnode[r])
  /\ started' = [started EXCEPT ![gnode[r]] = @ + 1]
  /\ pc' = [pc EXCEPT ![r] = "task"]
  /\ UNCHANGED <<topology, satisfied, mutex, queue, last_trace,
                 runners_active, loops, locals, mainv, executed>>

\* (gnode->task)()
RunnerTask(r) ==
  /\ pc[r] = "task"
  /\ graph_loop' = task(gnode[r], graph_loop)
  /\ executed' = [executed EXCEPT ![gnode[r]] = @ + 1]
  /\ pc' = [pc EXCEPT ![r] = "trace_end"]
  /\ UNCHANGED <<topology, satisfied, mutex, queue, traces, runners_active,
                 graph_loops, locals, mainv, started>>

\* exec_trace_append(gnode->label) after the task
RunnerTraceEnd(r) ==
  /\ pc[r] = "trace_end"
  /\ exec_trace' = exec_trace_append(exec_trace, gnode[r])
  /\ pc' = [pc EXCEPT ![r] = "reset"]
  /\ UNCHANGED <<topology, satisfied, mutex, queue, last_trace,
                 runners_active, loops, locals, mainv, counts>>

\* gnode->deps.satisfied = 0; and the test of the label
RunnerReset(r) ==
  /\ pc[r] = "reset"
  /\ satisfied' = [satisfied EXCEPT ![gnode[r]] = deps_reset(@)]
  /\ pc' = [pc EXCEPT ![r] = IF gnode[r] = "Z" THEN "check_loops"
                                               ELSE "children"]
  /\ child' = [child EXCEPT ![r] = 1]
  /\ UNCHANGED <<topology, mutex, queue, traces, runners_active, loops,
                 gnode, mainv, counts>>

----------------------------------------------------------------------------
\* runner_check_loops()

\* LOG_EXEC_TRACE ? printf("exec trace: %s\n", exec_trace) : 0;
\* if (graph_loop == graph_loops) ... else exec_trace_reset();
RunnerCheckLoops(r) ==
  /\ pc[r] = "check_loops"
  /\ last_trace' = IF log_exec_trace THEN exec_trace ELSE last_trace
  /\ IF loops_done(graph_loop, graph_loops)
       THEN /\ pc' = [pc EXCEPT ![r] = "stop"]
            /\ UNCHANGED exec_trace
       ELSE /\ exec_trace' = exec_trace_reset
            /\ pc' = [pc EXCEPT ![r] = "push_graph"]
  /\ UNCHANGED <<topology, satisfied, mutex, queue, runners_active, loops,
                 locals, mainv, counts>>

\* runners_active = false; tasks_queue_length = -1;
\* Two plain stores to shared variables that other threads read without any
\* synchronisation with this thread: they become visible in either order.
RunnerStop(r) ==
  /\ \/ /\ pc[r] = "stop"
        /\ runners_active' = FALSE
        /\ pc' = [pc EXCEPT ![r] = "stop_length"]
        /\ UNCHANGED tasks_queue_length
     \/ /\ pc[r] = "stop"
        /\ tasks_queue_length' = -1
        /\ pc' = [pc EXCEPT ![r] = "stop_active"]
        /\ UNCHANGED runners_active
     \/ /\ pc[r] = "stop_length"
        /\ tasks_queue_length' = -1
        /\ pc' = [pc EXCEPT ![r] = "stop_broadcast"]
        /\ UNCHANGED runners_active
     \/ /\ pc[r] = "stop_active"
        /\ runners_active' = FALSE
        /\ pc' = [pc EXCEPT ![r] = "stop_broadcast"]
        /\ UNCHANGED tasks_queue_length
  /\ UNCHANGED <<topology, satisfied, mutex, tasks_queue, tasks_queue_mtx,
                 push_log, pop_log, traces, loops, locals, mainv, counts>>

\* broadcast(&tasks_queue_cvar) of the stop branch, and the return to the
\* head of the loop in runner()
RunnerStopBroadcast(r) ==
  /\ pc[r] = "stop_broadcast"
  /\ pc' = [broadcast(pc) EXCEPT ![r] = "while"]
  /\ gnode' = [gnode EXCEPT ![r] = NoNode]
  /\ child' = [child EXCEPT ![r] = 0]
  /\ UNCHANGED <<topology, satisfied, mutex, queue, traces, runners_active,
                 loops, mainv, counts>>

\* task_queue_push_back(graph) up to the unlock
RunnerPushGraph(r) ==
  /\ pc[r] = "push_graph"
  /\ task_queue_push_back("A")
  /\ pc' = [pc EXCEPT ![r] = "push_graph_broadcast"]
  /\ UNCHANGED <<topology, satisfied, mutex, traces, runners_active, loops,
                 locals, mainv, counts>>

\* the broadcast at the end of task_queue_push_back(graph)
RunnerPushGraphBroadcast(r) ==
  /\ pc[r] = "push_graph_broadcast"
  /\ pc' = [broadcast(pc) EXCEPT ![r] = "while"]
  /\ gnode' = [gnode EXCEPT ![r] = NoNode]
  /\ child' = [child EXCEPT ![r] = 0]
  /\ UNCHANGED <<topology, satisfied, mutex, queue, traces, runners_active,
                 loops, mainv, counts>>

----------------------------------------------------------------------------
\* runner_process_children(gnode)

\* the node the runner's child pointer is at
ChildOf(r) == children[gnode[r]][child[r]]

\* while (child != NULL) lock(&child->gnode->mutex);
RunnerChildLock(r) ==
  /\ pc[r] = "children"
  /\ IF child[r] > Len(children[gnode[r]])
       THEN /\ pc' = [pc EXCEPT ![r] = "while"]
            /\ gnode' = [gnode EXCEPT ![r] = NoNode]
            /\ child' = [child EXCEPT ![r] = 0]
            /\ UNCHANGED mutex
       ELSE /\ mutex[ChildOf(r)] = 0
            /\ mutex' = [mutex EXCEPT ![ChildOf(r)] = r]
            /\ pc' = [pc EXCEPT ![r] = "arrive"]
            /\ UNCHANGED locals
  /\ UNCHANGED <<topology, satisfied, queue, traces, runners_active, loops,
                 mainv, counts>>

\* if (required == ++satisfied); when the test fails: unlock, next child
RunnerChildArrive(r) ==
  /\ pc[r] = "arrive"
  /\ satisfied' = [satisfied EXCEPT ![ChildOf(r)] = @ + 1]
  /\ IF deps_met(required[ChildOf(r)], satisfied[ChildOf(r)])
       THEN /\ pc' = [pc EXCEPT ![r] = "push_child"]
            /\ UNCHANGED <<mutex, child>>
       ELSE /\ mutex' = [mutex EXCEPT ![ChildOf(r)] = 0]
            /\ child' = [child EXCEPT ![r] = @ + 1]
            /\ pc' = [pc EXCEPT ![r] = "children"]
  /\ UNCHANGED <<topology, queue, traces, runners_active, loops, gnode,
                 mainv, counts>>

\* task_queue_push_back(child->gnode) up to the unlock of tasks_queue_mtx,
\* with the child's mutex held
RunnerPushChild(r) ==
  /\ pc[r] = "push_child"
  /\ task_queue_push_back(ChildOf(r))
  /\ pc' = [pc EXCEPT ![r] = "push_child_broadcast"]
  /\ UNCHANGED <<topology, satisfied, mutex, traces, runners_active, loops,
                 locals, mainv, counts>>

\* the broadcast at the end of task_queue_push_back(child->gnode), then
\* unlock(&child->gnode->mutex); child = child->next;
RunnerPushChildBroadcast(r) ==
  /\ pc[r] = "push_child_broadcast"
  /\ pc' = [broadcast(pc) EXCEPT ![r] = "children"]
  /\ mutex' = [mutex EXCEPT ![ChildOf(r)] = 0]
  /\ child' = [child EXCEPT ![r] = @ + 1]
  /\ UNCHANGED <<topology, satisfied, queue, traces, runners_active, loops,
                 gnode, mainv, counts>>

----------------------------------------------------------------------------
\* The steps of a runner, without the spurious wakeup
Runner(r) ==
  \/ RunnerWhile(r)
  \/ RunnerLock(r)
  \/ RunnerTestLength(r)
  \/ RunnerWait(r)
  \/ RunnerWakeup(r)
  \/ RunnerTestActive(r)
  \/ RunnerPopFront(r)
  \/ RunnerTraceStart(r)
  \/ RunnerTask(r)
  \/ RunnerTraceEnd(r)
  \/ RunnerReset(r)
  \/ RunnerCheckLoops(r)
  \/ RunnerStop(r)
  \/ RunnerStopBroadcast(r)
  \/ RunnerPushGraph(r)
  \/ RunnerPushGraphBroadcast(r)
  \/ RunnerChildLock(r)
  \/ RunnerChildArrive(r)
  \/ RunnerPushChild(r)
  \/ RunnerPushChildBroadcast(r)

\* A null dereference ends the process
Alive == \A r \in Runners : pc[r] # "segv"

Next ==
  /\ Alive
  /\ \/ Main
     \/ \E r \in Runners : Runner(r)
     \/ \E r \in Runners : RunnerSpuriousWakeup(r)

Spec == Init /\ [][Next]_vars

\* Scheduling is fair: a thread that can take a step again and again
\* eventually takes one; in particular a thread that waits for a mutex that
\* is unlocked again and again eventually locks it.  Nothing makes cnd_wait
\* return without a broadcast.
Fairness ==
  /\ SF_vars(Alive /\ Main)
  /\ \A r \in 1 .. MaxPool : SF_vars(Alive /\ r \in Runners /\ Runner(r))

FairSpec == Spec /\ Fairness

\* One runner, on the graphs above and on the graph of main(), compiled
\* with LOG_EXEC_TRACE true
InitSerial == InitOn(Graphs \cup {GraphMain}, {1}, TRUE)

SerialSpec == InitSerial /\ [][Next]_vars /\ Fairness

----------------------------------------------------------------------------
\* Notions the properties are stated with

\* the positions of a label in a trace
Occ(trace, label) == {i \in DOMAIN trace : trace[i] = label}

\* how often a node is in a log
Count(log, n) == Cardinality(Occ(log, n))

Min(S) == CHOOSE x \in S : \A y \in S : x <= y
Max(S) == CHOOSE x \in S : \A y \in S : x >= y

\* runner r is running runner_check_loops and has taken the stop branch
Stopping(r) == pc[r] \in {"stop", "stop_length", "stop_active", "stop_broadcast"}

\* shutdown has been requested
StopRequested == ~runners_active

\* runner r has opened the trace for its node and not yet closed it
InTask(r) == pc[r] \in {"task", "trace_end"}

----------------------------------------------------------------------------
\* C1: no task body is ever started more than graph_loops times, and from
\* the moment runner_check_loops has set runners_active = false on, every
\* node's task body has been executed exactly graph_loops times.
C1_ExactlyLoopsTimes ==
  /\ \A n \in Labels : started[n] <= graph_loops
  /\ StopRequested => \A n \in Labels : /\ executed[n] = graph_loops
                                        /\ started[n] = graph_loops

\* two runners have run two loops of the diamond and shutdown is requested
C1_Witness ==
  /\ StopRequested
  /\ runners_pool_size = 2
  /\ graph_loops = 2
  /\ Cardinality(Labels) = 4
  /\ \A n \in Labels : executed[n] = 2

\* C2: for every edge p -> c, the opening label of c is in the trace of a
\* loop (and so the task of c is started) only after both labels of p of
\* that loop: p's closing label precedes c's opening label.
C2_DependencyOrder ==
  \A p \in Labels : \A k \in DOMAIN children[p] :
    LET c == children[p][k] IN
      Occ(exec_trace, c) # {} =>
        /\ Cardinality(Occ(exec_trace, p)) = 2
        /\ Max(Occ(exec_trace, p)) < Min(Occ(exec_trace, c))

\* the second loop of the diamond on two runners: B and C were in their
\* tasks at the same time and 'Z' has been opened
C2_Witness ==
  /\ runners_pool_size = 2
  /\ graph_loop = 2
  /\ Len(exec_trace) >= 7
  /\ SubSeq(exec_trace, 3, 7) = <<"B", "C", "C", "B", "Z">>

\* C3: once the stop branch of runner_check_loops has been taken, every
\* runner that is waiting on tasks_queue_cvar, or that has locked
\* tasks_queue_mtx and is about to test tasks_queue_length == 0, eventually
\* observes the shutdown and leaves runner(); no runner stays in cnd_wait
\* for ever.
C3_ShutdownLiveness ==
  \A r \in 1 .. MaxPool :
    (r \in Runners /\ StopRequested /\ pc[r] \in {"test_length", "cnd_wait"})
      ~> (r \in Runners /\ pc[r] = "exit")

\* C4: every node is pushed exactly once per loop: the number of pushes of
\* a node is the number of started loops (the entry node is pushed before
\* its task counts the loop), and all nodes have been pushed graph_loop
\* times when runner_check_loops is entered.  So the queue never holds a
\* node twice and no two runners are in the task of the same node.
C4_PushedOncePerLoop ==
  /\ \A n \in Labels :
       IF n = "A" THEN Count(push_log, n) \in {graph_loop, graph_loop + 1}
                  ELSE Count(push_log, n) \in {graph_loop - 1, graph_loop}
  /\ \A r \in Runners :
       pc[r] = "check_loops" => \A n \in Labels : Count(push_log, n) = graph_loop
  /\ \A i, j \in DOMAIN tasks_queue : i # j => tasks_queue[i] # tasks_queue[j]
  /\ \A r1, r2 \in Runners :
       r1 # r2 /\ InTask(r1) /\ InTask(r2) => gnode[r1] # gnode[r2]

\* the last parent of 'Z' in the second loop of the diamond has pushed it,
\* after the other parent had arrived
C4_Witness ==
  /\ runners_pool_size = 2
  /\ graph_loop = 2
  /\ \E r \in Runners : pc[r] = "push_child_broadcast" /\ ChildOf(r) = "Z"
  /\ Count(push_log, "Z") = 2
  /\ required["Z"] = 2

\* C5: in every reachable state 0 <= satisfied <= required for every node.
C5_SatisfiedInRange ==
  \A n \in Labels : 0 <= satisfied[n] /\ satisfied[n] <= required[n]

\* in the second loop, one of the two parents of 'Z' has arrived
C5_Witness ==
  /\ graph_loop = 2
  /\ required["Z"] = 2
  /\ satisfied["Z"] = 1

\* C6: every node in the ready queue has satisfied = required, from the
\* push to the pop.
C6_QueuedIsReady ==
  \A i \in DOMAIN tasks_queue :
    satisfied[tasks_queue[i]] = required[tasks_queue[i]]

\* 'Z' with its two parents is in the queue in the second loop
C6_Witness ==
  /\ tasks_queue = <<"Z">>
  /\ required["Z"] = 2
  /\ graph_loop = 2

\* C7: graph_loop is 0 when runners_loop pushes the entry node, it changes
\* only by the task of 'A', by exactly 1 each time 'A' runs, it stays in
\* 0 .. graph_loops, and it equals graph_loops once shutdown is requested
\* and after runners_join has returned.
C7_LoopBookkeeping ==
  /\ [](main_pc = "runners_loop" => graph_loop = 0)
  /\ [](0 <= graph_loop /\ graph_loop <= graph_loops)
  /\ [](graph_loop = executed["A"])
  /\ [](StopRequested \/ main_pc = "exit" => graph_loop = graph_loops)
  /\ [][graph_loop' # graph_loop =>
          /\ graph_loop' = graph_loop + 1
          /\ \E r \in Runners : /\ pc[r] = "task"
                                /\ gnode[r] = "A"
                                /\ pc'[r] = "trace_end"]_vars

\* runners_join has returned after two loops on two runners
C7_Witness ==
  /\ main_pc = "exit"
  /\ runners_pool_size = 2
  /\ graph_loops = 2
  /\ graph_loop = 2

\* runner r is between the pop of a node and the return from
\* runner_check_loops or runner_process_children for it
Busy(r) == pc[r] \in {"trace_start", "task", "trace_end", "reset",
                      "check_loops", "stop", "stop_length", "stop_active",
                      "stop_broadcast", "push_graph", "push_graph_broadcast",
                      "children", "arrive", "push_child",
                      "push_child_broadcast"}

\* runner r has no task, no arrival at a child and no push left to do: it
\* is not busy, or it is in runner_process_children behind its last arrival,
\* or it has pushed the entry node and is about to broadcast
ArrivalsDone(r) ==
  \/ ~Busy(r)
  \/ pc[r] = "children" /\ child[r] > Len(children[gnode[r]])
  \/ pc[r] = "push_child_broadcast" /\ child[r] = Len(children[gnode[r]])
  \/ pc[r] = "push_graph_broadcast"

\* C8 as claimed: when runner_check_loops requests shutdown the queue is
\* empty, no other runner is between a pop and the end of
\* runner_process_children, and every satisfied counter is 0.
C8_Original ==
  /\ \A r \in Runners :
       Stopping(r) => /\ tasks_queue = <<>>
                      /\ \A o \in Runners \ {r} : ~Busy(o)
                      /\ \A n \in Labels : satisfied[n] = 0
  /\ main_pc = "exit" => tasks_queue = <<>>

\* C8 amended: when runner_check_loops requests shutdown the queue is empty,
\* every satisfied counter is 0, and no other runner has a task, an arrival
\* at a child or a push left to do; another runner may still be finishing
\* runner_process_children behind its last arrival (the broadcast of the
\* push of 'Z' and the unlock of its mutex) or the broadcast of the push of
\* the entry node in runner_check_loops.  After join the queue is empty.
C8_StopAtLoopEnd ==
  /\ \A r \in Runners :
       Stopping(r) => /\ tasks_queue = <<>>
                      /\ \A o \in Runners \ {r} : ArrivalsDone(o)
                      /\ \A n \in Labels : satisfied[n] = 0
  /\ main_pc = "exit" => tasks_queue = <<>>

\* a runner requests shutdown after the second loop while the runner that
\* pushed 'Z' has not yet left task_queue_push_back
C8_Witness ==
  /\ graph_loops = 2
  /\ \E r, o \in Runners : /\ pc[r] = "stop"
                           /\ pc[o] = "push_child_broadcast"
                           /\ mutex["Z"] = o

\* C9: the queue is first in, first out: the nodes popped so far are, in
\* this order, the first nodes pushed, and the queue holds the remaining
\* pushed nodes in the order of their pushes.
C9_Fifo ==
  /\ Len(pop_log) <= Len(push_log)
  /\ pop_log = SubSeq(push_log, 1, Len(pop_log))
  /\ tasks_queue = SubSeq(push_log, Len(pop_log) + 1, Len(push_log))

\* in the second loop on two runners the queue holds B and C, pushed in
\* this order, behind the five nodes popped before
C9_Witness ==
  /\ runners_pool_size = 2
  /\ push_log = <<"A", "B", "C", "Z", "A", "B", "C">>
  /\ pop_log = <<"A", "B", "C", "Z", "A">>
  /\ tasks_queue = <<"B", "C">>

\* the trace of a loop that runs the nodes one after the other in this order
Twice(order) == [i \in 1 .. 2 * Len(order) |-> order[(i + 1) \div 2]]

\* a runner is at the end of a loop, on entry to runner_check_loops
LoopEnd == \E r \in Runners : pc[r] = "check_loops"

\* the order in which one runner runs the nodes of the graph of main()
MainOrder == <<"A", "a", "b", "c", "1", "2", "3", "4", "i", "j", "k", "x",
               "y", "Z">>

\* With one runner: the labels of a node are next to each other in the
\* trace; at the end of a loop every label is in the trace exactly twice, in
\* an order that has every parent before its children, and the trace is the
\* trace of the loop before; the graph of main() runs in MainOrder.
C10_SerialTrace ==
  /\ \A i \in DOMAIN exec_trace :
       i % 2 = 0 => exec_trace[i - 1] = exec_trace[i]
  /\ \A n \in Labels : Count(exec_trace, n) <= 2
  /\ LoopEnd =>
       /\ Len(exec_trace) = 2 * Cardinality(Labels)
       /\ \A n \in Labels : Count(exec_trace, n) = 2
       /\ \A p \in Labels : \A k \in DOMAIN children[p] :
            Max(Occ(exec_trace, p)) < Min(Occ(exec_trace, children[p][k]))
       /\ graph_loop > 1 => last_trace = exec_trace
       /\ children = GraphMain.children => exec_trace = Twice(MainOrder)

\* C10: with runners_pool_size = 1 every loop leaves the same trace, each
\* label twice in adjacent positions in a topological order of the graph,
\* and the run ends after graph_loops loops.
C10_SerialRun ==
  /\ []C10_SerialTrace
  /\ <>(/\ main_pc = "exit"
        /\ graph_loop = graph_loops
        /\ \A n \in Labels : executed[n] = graph_loops)

\* one runner has run the graph of main() twice and main() has joined it
C10_Witness ==
  /\ runners_pool_size = 1
  /\ children = GraphMain.children
  /\ graph_loops = 2
  /\ last_trace = Twice(MainOrder)
  /\ main_pc = "exit"

----------------------------------------------------------------------------
\* The linear chains: A --> Z and A --> B --> Z, on every pool size
InitChain == InitOn({GraphDirect, GraphChain}, 1 .. MaxPool, FALSE)

ChainSpec == InitChain /\ [][Next]_vars /\ Fairness

\* the nodes of a chain from node n on, in the order of the edges
RECURSIVE ChainFrom(_)
ChainFrom(n) == IF children[n] = <<>> THEN <<n>>
                ELSE <<n>> \o ChainFrom(children[n][1])

\* C11: on a linear chain, for every pool size and every interleaving, the
\* trace at the end of each loop is each label twice in chain order (AAZZ
\* for A --> Z), and the run terminates: runners_join returns (a run the
\* operating system ends on a fault has terminated as well).
C11_ChainRun ==
  /\ [](LoopEnd => exec_trace = Twice(ChainFrom("A")))
  /\ <>(main_pc = "exit" \/ ~Alive)

----------------------------------------------------------------------------
\* The diamond A --> {B, C} --> Z on the smallest pool that can run B and C
\* in parallel, two runners, compiled with LOG_EXEC_TRACE true
InitParallel == InitOn({GraphDiamond}, {2}, TRUE)

ParallelSpec == InitParallel /\ [][Next]_vars

\* the traces of the two siblings of the diamond: each label twice
SiblingTraces ==
  {t \in [1 .. 4 -> {"B", "C"}] : Count(t, "B") = 2}

\* C12: on the diamond with two runners, B and C run in parallel:
\* two different runners are in the task bodies of B and C at the same time
\* exactly when both opening labels are in the trace and neither closing
\* label is (after both labels of A, before any label of Z), and the trace
\* of a loop is AA, the labels of B and C in any of their orders, ZZ; the
\* witness shows the overlap and both orders of the closing labels.
C12_SiblingsParallel ==
  /\ \A r, o \in Runners :
       (InTask(r) /\ gnode[r] = "B" /\ InTask(o) /\ gnode[o] = "C") =>
         /\ r # o
         /\ exec_trace \in {<<"A", "A", "B", "C">>, <<"A", "A", "C", "B">>}
  /\ (Count(exec_trace, "B") = 1 /\ Count(exec_trace, "C") = 1) =>
       \E r, o \in Runners :
         /\ r # o
         /\ InTask(r) /\ gnode[r] = "B"
         /\ InTask(o) /\ gnode[o] = "C"
  /\ LoopEnd =>
       /\ Len(exec_trace) = 8
       /\ SubSeq(exec_trace, 1, 2) = <<"A", "A">>
       /\ SubSeq(exec_trace, 3, 6) \in SiblingTraces
       /\ SubSeq(exec_trace, 7, 8) = <<"Z", "Z">>

\* in the first loop B and C overlapped and C closed first; in the second
\* they overlap again, B has closed first and C is still in its task body
C12_Witness ==
  /\ last_trace = <<"A", "A", "B", "C", "C", "B", "Z", "Z">>
  /\ exec_trace = <<"A", "A", "B", "C", "B">>
  /\ \E o \in Runners : InTask(o) /\ gnode[o] = "C"

----------------------------------------------------------------------------
\* runner r takes a step that writes the shutdown indication: one of the
\* stores runners_active = false and tasks_queue_length = -1
WritesShutdown(r) ==
  /\ pc[r] \in {"stop", "stop_length", "stop_active"}
  /\ pc'[r] # pc[r]

\* runner r takes a step that reads runners_active: the test of the while
\* loop or the test behind the wait
ReadsActive(r) ==
  /\ pc[r] \in {"while", "test_active"}
  /\ pc'[r] # pc[r]

\* C13: the shutdown indication (runners_active and the length -1) is only
\* written by a runner that holds tasks_queue_mtx, and runners_active is
\* only read by a runner that holds tasks_queue_mtx.
C13_ShutdownUnderMutex ==
  [][\A r \in Runners :
       (WritesShutdown(r) \/ ReadsActive(r)) => tasks_queue_mtx = r]_vars

----------------------------------------------------------------------------
\* runner r holds the mutex of a node: in runner_process_children, from the
\* lock of the child to its unlock
HoldsNodeMutex(r) == \E n \in Labels : mutex[n] = r

\* the next step of runner r is a mtx_lock: of tasks_queue_mtx (in runner,
\* on return from cnd_wait, in task_queue_push_back), of the mutex of a
\* child, or of exec_trace_mtx in exec_trace_append
AcquiresMutex(r) ==
  pc[r] \in {"lock", "wakeup", "push_graph", "push_child", "children",
             "trace_start", "trace_end"}

\* runner r is about to wait or waits on tasks_queue_cvar
WaitsOnCvar(r) == pc[r] \in {"wait", "cnd_wait"}

\* C14: a runner that holds the mutex of a node does not attempt to acquire
\* another mutex, in particular not tasks_queue_mtx, and does not wait on
\* tasks_queue_cvar.  (exec_trace_mtx is held only within exec_trace_append,
\* which calls nothing.)
C14_NoLockWhileHolding ==
  \A r \in Runners :
    HoldsNodeMutex(r) => ~AcquiresMutex(r) /\ ~WaitsOnCvar(r)

----------------------------------------------------------------------------
\* The states of the pool: 0 constructed (runners_init_pool has returned,
\* runners_loop has not pushed the graph), 1 running, 2 draining
\* (runners_active is false), 3 joined (runners_join has returned)
Lifecycle ==
  CASE main_pc = "exit" -> 3
    [] ~runners_active -> 2
    [] main_pc = "runners_loop" -> 0
    [] OTHER -> 1

\* C15: the pool only moves forward through constructed, running, draining
\* and joined; a runner that has left its loop stays out; and from the
\* moment runners_active is false it stays false, no node is pushed to or
\* popped from the queue and no task body is started.
C15_LifecycleMonotone ==
  [][/\ Lifecycle' >= Lifecycle
     /\ \A r \in Runners : pc[r] = "exit" => pc'[r] = "exit"
     /\ ~runners_active =>
          /\ ~runners_active'
          /\ push_log' = push_log
          /\ pop_log' = pop_log
          /\ tasks_queue' = tasks_queue
          /\ started' = started]_vars

\* two runners have run the diamond twice, both have left their loops and
\* runners_join has returned
C15_Witness ==
  /\ children = GraphDiamond.children
  /\ runners_pool_size = 2
  /\ graph_loop = 2
  /\ ~runners_active
  /\ \A r \in Runners : pc[r] = "exit"
  /\ main_pc = "exit"

----------------------------------------------------------------------------
\* runner r leaves runner_check_loops
LeavesCheckLoops(r) == pc[r] = "check_loops" /\ pc'[r] # "check_loops"

\* C16: the trace never holds more than 2 * |nodes| labels, nor a label
\* more than twice, so exec_trace_append stays within the buffer of
\* 2 * graph_size + 1 characters; at the end of each loop it holds every
\* label exactly twice; runner_check_loops empties it at the end of every
\* loop but the last and leaves it alone at the end of the last; and it is
\* only emptied there, by the runner that executed 'Z', while no other
\* runner is between the opening and the closing append of a node.
C16_TraceBound ==
  /\ [](/\ Len(exec_trace) <= 2 * Cardinality(Labels)
        /\ \A n \in Labels : Count(exec_trace, n) <= 2
        /\ LoopEnd => \A n \in Labels : Count(exec_trace, n) = 2)
  /\ [][/\ \A r \in Runners :
             LeavesCheckLoops(r) =>
               exec_trace' = IF graph_loop = graph_loops THEN exec_trace
                             ELSE <<>>
        /\ (exec_trace # <<>> /\ exec_trace' = <<>>) =>
             \E r \in Runners :
               /\ LeavesCheckLoops(r)
               /\ gnode[r] = "Z"
               /\ \A o \in Runners \ {r} :
                    pc[o] \notin {"trace_start", "task", "trace_end"}]_vars

\* two runners, at the end of the second loop of the diamond: the trace
\* was emptied after the first loop and holds the eight labels of the second
C16_Witness ==
  /\ children = GraphDiamond.children
  /\ runners_pool_size = 2
  /\ graph_loop = 2
  /\ LoopEnd
  /\ Len(exec_trace) = 8

----------------------------------------------------------------------------
\* runner o is in runner_process_children at an arrival at node n: about to
\* lock the mutex of n, or inside the locked ++satisfied
ArrivesAt(o, n) ==
  /\ pc[o] \in {"children", "arrive"}
  /\ child[o] <= Len(children[gnode[o]])
  /\ ChildOf(o) = n

\* C17: the unlocked reset of deps.satisfied does not race with an arrival:
\* when a runner is about to reset the count of the node it has executed,
\* the count equals deps.required and no other runner is at an arrival at
\* that node (neither inside the locked increment nor about to lock for
\* it); and no arrival is carried over: at the end of a loop every count is
\* back to 0.
C17_ResetNoRace ==
  /\ \A r \in Runners :
       pc[r] = "reset" =>
         /\ satisfied[gnode[r]] = required[gnode[r]]
         /\ \A o \in Runners \ {r} : ~ArrivesAt(o, gnode[r])
  /\ LoopEnd => \A n \in Labels : satisfied[n] = 0

\* second loop of the diamond: a runner is about to reset the count of 'Z'
\* while the runner that pushed 'Z' still holds the mutex of 'Z'
C17_Witness ==
  /\ children = GraphDiamond.children
  /\ graph_loop = 2
  /\ \E r, o \in Runners :
       /\ pc[r] = "reset"
       /\ gnode[r] = "Z"
       /\ satisfied["Z"] = 2
       /\ mutex["Z"] = o
       /\ pc[o] = "push_child_broadcast"

----------------------------------------------------------------------------
\* A --> { D, Z }: 'Z' is reachable from the entry, the dead end D has no
\* path to 'Z'
GraphDeadEnd == gnode_child(gnode_child_new(GraphAZ, "A", "D"), "A", "Z")

InitDeadEnd == InitOn({GraphDeadEnd}, 1 .. MaxPool, FALSE)

DeadEndSpec == InitDeadEnd /\ [][Next]_vars

\* C18: on a graph with a dead-end node the loop still runs every node
\* exactly graph_loops times (never more, and exactly that often once
\* runners_join has returned), the trace never holds more than 2 * |nodes|
\* labels, and the queue is empty when runner_check_loops requests the
\* shutdown.
C18_DeadEnd ==
  /\ \A n \in Labels : started[n] <= graph_loops
  /\ main_pc = "exit" => \A n \in Labels : executed[n] = graph_loops
  /\ Len(exec_trace) <= 2 * Cardinality(Labels)
  /\ (StopRequested \/ \E r \in Runners : Stopping(r)) => tasks_queue = <<>>

----------------------------------------------------------------------------
\* C19: before the shutdown is requested tasks_queue_length is the number of
\* nodes linked in tasks_queue and never negative; and a runner calls
\* task_queue_pop_front only while it holds tasks_queue_mtx and the queue is
\* not empty, also while another runner is writing runners_active = false
\* and tasks_queue_length = -1.
C19_QueueConsistent ==
  /\ (runners_active /\ \A r \in Runners : ~Stopping(r)) =>
       /\ tasks_queue_length = Len(tasks_queue)
       /\ tasks_queue_length >= 0
  /\ \A r \in Runners :
       pc[r] = "pop_front" => tasks_queue_mtx = r /\ tasks_queue # <<>>

----------------------------------------------------------------------------
\* The graphs above on one runner and on two: the pools without and with
\* contention for tasks_queue_mtx and the node mutexes
InitProgress == InitOn(Graphs, {1, 2}, FALSE)

ProgressSpec == InitProgress /\ [][Next]_vars /\ Fairness

\* a node has been pushed and not yet executed
Pending == \E n \in Labels : executed[n] < Count(push_log, n)

\* runner r cannot take a step: it waits on tasks_queue_cvar, or for
\* tasks_queue_mtx, or for the mutex of a child
Blocked(r) ==
  \/ pc[r] = "cnd_wait"
  \/ /\ pc[r] \in {"lock", "wakeup", "push_graph", "push_child"}
     /\ tasks_queue_mtx # 0
  \/ /\ pc[r] = "children"
     /\ child[r] <= Len(children[gnode[r]])
     /\ mutex[ChildOf(r)] # 0

\* C20: with task bodies that return and fair scheduling, every node that
\* is pushed is popped and executed (the queue is empty again and no pushed
\* node is left unexecuted), and the loops run to the end of the last 'Z';
\* no broadcast of task_queue_push_back is lost and the nested locks of
\* runner_process_children do not deadlock: while a loop is unfinished and
\* main() is not about to broadcast, some runner is not blocked.
C20_Progress ==
  /\ (tasks_queue # <<>>) ~> (tasks_queue = <<>>)
  /\ Pending ~> ~Pending
  /\ <>(graph_loops > 0 /\ executed["Z"] = graph_loops)
  /\ []((main_pc \notin {"runners_loop", "broadcast"}
           /\ executed["Z"] < graph_loops) =>
          \E r \in Runners : ~Blocked(r))

\* a runner holds the mutex of 'Z' and needs tasks_queue_mtx to push 'Z',
\* while the other runner holds tasks_queue_mtx, has found the queue empty
\* and is about to wait
C20_Witness ==
  \E r, o \in Runners :
    /\ pc[r] = "push_child"
    /\ mutex["Z"] = r
    /\ tasks_queue_mtx = o
    /\ pc[o] = "wait"

====
